---------------------------- MODULE Spec2Model ----------------------------
(*****************************************************************************)
(* SysArch Simulator (App component and services/ai.ts): the simulation      *)
(* tick, the auto-scaling rules, the event log, the operator controls and    *)
(* the AI advisor.                                                           *)
(*                                                                           *)
(* React state is modelled as the hook's current value (state) plus the      *)
(* queue of updater functions handed to setState and not yet applied. Every  *)
(* setState(prev => ...) of the source is an entry of that queue; the        *)
(* entries are applied in order, each to the value the one before it         *)
(* produced.  addLog, called from inside the tick updater, hands a further   *)
(* updater to setState while the tick updater runs: it joins the queue       *)
(* behind whatever is already waiting.  Applying the queue is the render;    *)
(* events are handled between renders.  Values a handler reads from the      *)
(* component's closure (state.isAutoScaling, isPlaying, isAiLoading) are     *)
(* those of the last committed render, kept in rendered.                     *)
(*                                                                           *)
(* The advisor's request is in flight from the click that starts it until    *)
(* the external call settles and handleAiAnalyze resumes; what the external  *)
(* call answers is the environment's choice.                                 *)
(*                                                                           *)
(* Quantities are requests per second as integers.  trafficLevel is always a *)
(* multiple of 50 (initial 100, steps of 50, slider step 50), and            *)
(* Math.random() is sampled at the tenths r/10, so the noise (r/10 - 0.5) *  *)
(* trafficLevel * 0.2 is an integer.  On integers the thresholds             *)
(* maxServerCapacity * 0.8 and * 0.3 are exact in IEEE doubles, and          *)
(* dbUtilization is compared as a fraction.                                  *)
(*****************************************************************************)
EXTENDS Integers, Sequences, FiniteSets, TLC

\* ---- program constants (types.ts CONSTANTS, and the literals of App) ----
MAX_SERVERS == 8
MAX_DBS == 4
SERVER_CAPACITY == 150
DB_CAPACITY == 400
QUEUE_PROCESS_RATE == 300
LOG_LIMIT == 50
HISTORY_LIMIT == 50
DB_QUEUE_THRESHOLD == 200
TRAFFIC_STEP == 50
SPIKE == 500
NORMAL_TRAFFIC == 100
SLIDER_MAX == 2000
TIMEOUT_PENALTY == 5000
BASE_LATENCY == 20

\* ---- bounds of the model ----
\* Spec: interval callbacks that fire, operator actions taken, and setState
\* updaters an event may find waiting when it adds its own
MaxTime == 1
MaxOps == 2
MaxPending == 2
\* SpecSoak: interval callbacks that fire and operator actions taken
SoakTime == 8
SoakOps == 2
\* SpecLong: interval callbacks that fire and slider moves
LongTime == 52
LongOps == 1
\* SpecTraffic: interval callbacks that fire and slider moves
TrafficTime == 8
TrafficOps == 4
\* SpecPause: interval callbacks that fire and operator actions taken
PauseTime == 3
PauseOps == 3
\* SpecAdvisor: interval callbacks that fire and clicks on "Ask AI Advisor"
AdvisorTime == 2
AdvisorOps == 3
\* SpecNoise: interval callbacks that fire and slider moves
NoiseTime == 2
NoiseOps == 1
\* SpecSteady: interval callbacks that fire and slider moves before the first
SteadyTime == 8
SteadyOps == 1
\* SpecFlap: interval callbacks that fire and slider moves
FlapTime == 4
FlapOps == 2
\* SpecReset: interval callbacks that fire and operator actions taken
ResetTime == 3
ResetOps == 3

VARIABLES
  state,      \* the SystemState held by useState (App, lines 14-24)
  queue,      \* updaters handed to setState and not yet applied
  isPlaying,  \* useState(true), line 10
  rendered,   \* the values captured by the closures of the last render
  rendering,  \* React is applying the queue and has not committed yet
  interval,   \* whether the setInterval of the tick effect is armed
  clock,      \* interval callbacks fired so far (the time stamps' source)
  ops,        \* operator actions taken so far
  last,       \* the updater applied last: its kind, its input, its random draw
  ai,         \* whether services/ai.ts built its client (API_KEY set), lines 4-12
  isAiLoading,  \* useState(false), line 12
  aiAnalysis,   \* useState(""), line 11
  inFlight    \* calls of ai.models.generateContent that have not settled

vars == <<state, queue, isPlaying, rendered, rendering, interval, clock, ops, last,
          ai, isAiLoading, aiAnalysis, inFlight>>

\* the advisor's variables, which the simulation never touches
advisor == <<ai, isAiLoading, aiAnalysis, inFlight>>

Min(a, b) == IF a < b THEN a ELSE b
Max(a, b) == IF a > b THEN a ELSE b

\* ---- the tick updater (App, lines 48-141) as a function of prev and r ----

\* mutant of noise: a band of 20% on either side
noiseDoubled(prev, r) == ((r - 5) * prev.trafficLevel) \div 25

\* line 50: (Math.random() - 0.5) * (prev.trafficLevel * 0.2), Math.random() = r/10
noise(prev, r) == ((r - 5) * prev.trafficLevel) \div 50

\* line 51
currentTraffic(prev, r) == Max(0, prev.trafficLevel + noise(prev, r))

\* line 54
maxServerCapacity(prev) == prev.serverCount * SERVER_CAPACITY

\* line 55
serverLoad(prev, r) == Min(currentTraffic(prev, r), maxServerCapacity(prev))

\* line 57
overloadedTraffic(prev, r) == Max(0, currentTraffic(prev, r) - maxServerCapacity(prev))

\* lines 65-68: the queue after the servers dumped into it, and what it hands on
processed(prev, r) == Min(prev.queueSize + serverLoad(prev, r), QUEUE_PROCESS_RATE)

\* lines 60-74
throughputToDb(prev, r) ==
  IF prev.hasQueue THEN processed(prev, r) ELSE serverLoad(prev, r)

\* mutant of newQueueSize: what the queue handed to the databases (line 70)
\* not taken off it
newQueueSizeNotDrained(prev, r) ==
  IF prev.hasQueue
    THEN prev.queueSize + serverLoad(prev, r)
    ELSE 0

\* lines 61-74
newQueueSize(prev, r) ==
  IF prev.hasQueue
    THEN (prev.queueSize + serverLoad(prev, r)) - processed(prev, r)
    ELSE 0

\* line 76
maxDbCapacity(prev) == prev.dbCount * DB_CAPACITY

\* line 77: dbUtilization = throughputToDb / maxDbCapacity, compared with a
\* literal num/10 as the fraction it is
dbUtilizationAbove(prev, r, num) == throughputToDb(prev, r) * 10 > num * maxDbCapacity(prev)
dbUtilizationBelow(prev, r, num) == throughputToDb(prev, r) * 10 < num * maxDbCapacity(prev)

\* mutant of latency: the timeout penalty of line 85 left out
latencyNoTimeout(prev, r) ==
    BASE_LATENCY * 1000
  + (serverLoad(prev, r) * 100000) \div maxServerCapacity(prev)
  + (throughputToDb(prev, r) * 200000) \div maxDbCapacity(prev)
  + (IF prev.hasQueue THEN prev.queueSize * 500 ELSE 0)

\* lines 81-85, in thousandths of a millisecond, each term rounded down
latency(prev, r) ==
    BASE_LATENCY * 1000
  + (serverLoad(prev, r) * 100000) \div maxServerCapacity(prev)
  + (throughputToDb(prev, r) * 200000) \div maxDbCapacity(prev)
  + (IF prev.hasQueue THEN prev.queueSize * 500 ELSE 0)
  + (IF overloadedTraffic(prev, r) > 0 THEN TIMEOUT_PENALTY * 1000 ELSE 0)

\* mutant of addServer: the bound on serverCount forgotten
addServerUnbounded(prev, r) ==
  serverLoad(prev, r) * 10 > maxServerCapacity(prev) * 8

\* mutant of addServer: a server added above 20% load, below the 30% under
\* which one is removed
addServerEager(prev, r) ==
  /\ serverLoad(prev, r) * 10 > maxServerCapacity(prev) * 2
  /\ prev.serverCount < MAX_SERVERS

\* mutant of addServer: no server added beyond half the fleet
addServerHalfFleet(prev, r) ==
  /\ serverLoad(prev, r) * 10 > maxServerCapacity(prev) * 8
  /\ prev.serverCount * 2 < MAX_SERVERS

\* line 94
addServer(prev, r) ==
  /\ serverLoad(prev, r) * 10 > maxServerCapacity(prev) * 8
  /\ prev.serverCount < MAX_SERVERS

\* mutant of removeServer: the floor of one server forgotten
removeServerNoFloor(prev, r) ==
  /\ ~addServer(prev, r)
  /\ serverLoad(prev, r) * 10 < maxServerCapacity(prev) * 3

\* line 97
removeServer(prev, r) ==
  /\ ~addServer(prev, r)
  /\ serverLoad(prev, r) * 10 < maxServerCapacity(prev) * 3
  /\ prev.serverCount > 1

\* line 103
addQueue(prev, r) == dbUtilizationAbove(prev, r, 8) /\ ~prev.hasQueue

\* mutant of removeQueue: the queue removed while it still holds work
removeQueueWithBacklog(prev, r) ==
  /\ ~addQueue(prev, r)
  /\ dbUtilizationBelow(prev, r, 2)
  /\ prev.hasQueue

\* line 106
removeQueue(prev, r) ==
  /\ ~addQueue(prev, r)
  /\ dbUtilizationBelow(prev, r, 2)
  /\ prev.hasQueue
  /\ prev.queueSize = 0

\* mutant of addDb: the rule reads the queue as the tick has just left it
addDbRereads(prev, r) ==
  /\ (IF addQueue(prev, r) THEN TRUE
      ELSE IF removeQueue(prev, r) THEN FALSE
      ELSE prev.hasQueue)
  /\ newQueueSize(prev, r) > DB_QUEUE_THRESHOLD
  /\ prev.dbCount < MAX_DBS

\* line 112
addDb(prev, r) ==
  /\ prev.hasQueue
  /\ prev.queueSize > DB_QUEUE_THRESHOLD
  /\ prev.dbCount < MAX_DBS

\* line 115
removeDb(prev, r) ==
  /\ ~addDb(prev, r)
  /\ dbUtilizationBelow(prev, r, 3)
  /\ prev.dbCount > 1

\* mutant of nextServerCount: the servers scaled with auto-scaling off
nextServerCountAlways(prev, r) ==
  IF addServer(prev, r) THEN prev.serverCount + 1
  ELSE IF removeServer(prev, r) THEN prev.serverCount - 1
  ELSE prev.serverCount

\* lines 88, 92-100
nextServerCount(prev, r) ==
  IF ~prev.isAutoScaling THEN prev.serverCount
  ELSE IF addServer(prev, r) THEN prev.serverCount + 1
  ELSE IF removeServer(prev, r) THEN prev.serverCount - 1
  ELSE prev.serverCount

\* lines 90, 92, 102-109
nextHasQueue(prev, r) ==
  IF ~prev.isAutoScaling THEN prev.hasQueue
  ELSE IF addQueue(prev, r) THEN TRUE
  ELSE IF removeQueue(prev, r) THEN FALSE
  ELSE prev.hasQueue

\* mutant of nextDbCount: the scale-down branch tried first
nextDbCountDownFirst(prev, r) ==
  IF ~prev.isAutoScaling THEN prev.dbCount
  ELSE IF dbUtilizationBelow(prev, r, 3) /\ prev.dbCount > 1 THEN prev.dbCount - 1
  ELSE IF addDb(prev, r) THEN prev.dbCount + 1
  ELSE prev.dbCount

\* lines 89, 92, 111-118
nextDbCount(prev, r) ==
  IF ~prev.isAutoScaling THEN prev.dbCount
  ELSE IF addDb(prev, r) THEN prev.dbCount + 1
  ELSE IF removeDb(prev, r) THEN prev.dbCount - 1
  ELSE prev.dbCount

\* lines 31-36: a LogEntry (the random id is left out; message is the text
\* with the total it interpolates kept apart)
LogEntry(message, total, type, now) ==
  [message |-> message, total |-> total, type |-> type, timestamp |-> now]

\* lines 96, 99: the addLog call of the server rule, if one fires
serverLogs(prev, r, now) ==
  IF addServer(prev, r)
    THEN <<LogEntry("Auto-scaled: Added App Server", nextServerCount(prev, r), "SUCCESS", now)>>
  ELSE IF removeServer(prev, r)
    THEN <<LogEntry("Scaled down: Removed App Server", nextServerCount(prev, r), "INFO", now)>>
  ELSE <<>>

\* lines 105, 108
queueLogs(prev, r, now) ==
  IF addQueue(prev, r)
    THEN <<LogEntry("Architecture Change: Added Message Queue to buffer DB spikes", 0, "WARNING", now)>>
  ELSE IF removeQueue(prev, r)
    THEN <<LogEntry("Architecture Change: Removed Message Queue", 0, "INFO", now)>>
  ELSE <<>>

\* mutant of dbLogs: the removal of a replica not logged
dbLogsSilentRemoval(prev, r, now) ==
  IF addDb(prev, r)
    THEN <<LogEntry("Auto-scaled: Added DB Read Replica", nextDbCount(prev, r), "SUCCESS", now)>>
  ELSE <<>>

\* lines 114, 117
dbLogs(prev, r, now) ==
  IF addDb(prev, r)
    THEN <<LogEntry("Auto-scaled: Added DB Read Replica", nextDbCount(prev, r), "SUCCESS", now)>>
  ELSE IF removeDb(prev, r)
    THEN <<LogEntry("Scaled down: Removed DB Replica", nextDbCount(prev, r), "INFO", now)>>
  ELSE <<>>

\* lines 92-119: the addLog calls the tick updater makes, in order
tickLogs(prev, r, now) ==
  IF prev.isAutoScaling
    THEN serverLogs(prev, r, now) \o queueLogs(prev, r, now) \o dbLogs(prev, r, now)
    ELSE <<>>

\* lines 121-130
newMetric(prev, r, now) ==
  [timestamp   |-> now,
   traffic     |-> currentTraffic(prev, r),
   latency     |-> latency(prev, r),
   serverLoad  |-> serverLoad(prev, r),
   dbLoad      |-> throughputToDb(prev, r),
   serverCount |-> nextServerCount(prev, r),
   dbCount     |-> nextDbCount(prev, r),
   queueSize   |-> Max(0, newQueueSize(prev, r))]

\* Array.prototype.slice(-n): the last n elements
sliceLast(s, n) == IF Len(s) <= n THEN s ELSE SubSeq(s, Len(s) - n + 1, Len(s))

\* Array.prototype.slice(0, n): the first n elements
sliceFirst(s, n) == IF Len(s) <= n THEN s ELSE SubSeq(s, 1, n)

\* line 139
nextMetricsHistory(prev, r, now) ==
  sliceLast(Append(prev.metricsHistory, newMetric(prev, r, now)), HISTORY_LIMIT)

\* lines 132-140: the state the tick updater returns
tickUpdater(prev, r, now) ==
  [prev EXCEPT
     !.actualTraffic  = currentTraffic(prev, r),
     !.serverCount    = nextServerCount(prev, r),
     !.dbCount        = nextDbCount(prev, r),
     !.hasQueue       = nextHasQueue(prev, r),
     !.queueSize      = Max(0, newQueueSize(prev, r)),
     !.metricsHistory = nextMetricsHistory(prev, r, now)]

\* mutant of logUpdater: the new event put at the end, the oldest dropped
logUpdaterAtTail(prev, newLog) ==
  [prev EXCEPT !.logs = sliceLast(Append(prev.logs, newLog), LOG_LIMIT)]

\* mutant of logUpdater: the slice forgotten
logUpdaterKeepAll(prev, newLog) ==
  [prev EXCEPT !.logs = <<newLog>> \o prev.logs]

\* lines 37-40: the updater addLog hands to setState
logUpdater(prev, newLog) ==
  [prev EXCEPT !.logs = sliceFirst(<<newLog>> \o prev.logs, LOG_LIMIT)]

\* mutant of trafficUpdater: the clamp at zero forgotten
trafficUpdaterUnclamped(prev, delta) ==
  [prev EXCEPT !.trafficLevel = prev.trafficLevel + delta]

\* line 158
trafficUpdater(prev, delta) ==
  [prev EXCEPT !.trafficLevel = Max(0, prev.trafficLevel + delta)]

\* lines 229 and 236: the slider and the Normalize button
setTrafficUpdater(prev, value) == [prev EXCEPT !.trafficLevel = value]

\* mutant of toggleUpdater: the new flag computed from the state of the
\* handler's closure instead of prev
toggleUpdaterFromClosure(prev) ==
  [prev EXCEPT !.isAutoScaling = ~rendered.isAutoScaling]

\* line 162
toggleUpdater(prev) == [prev EXCEPT !.isAutoScaling = ~prev.isAutoScaling]

\* mutant of resetUpdater: each reset takes one server away
resetUpdaterOneServerLess(prev) ==
  [prev EXCEPT
     !.trafficLevel = NORMAL_TRAFFIC,
     !.serverCount  = Max(1, prev.serverCount - 1),
     !.dbCount      = 1,
     !.hasQueue     = FALSE,
     !.queueSize    = 0,
     !.logs         = <<>>]

\* mutant of resetUpdater: the metrics cleared with the rest
resetUpdaterClearsHistory(prev) ==
  [prev EXCEPT
     !.trafficLevel   = NORMAL_TRAFFIC,
     !.serverCount    = 1,
     !.dbCount        = 1,
     !.hasQueue       = FALSE,
     !.queueSize      = 0,
     !.metricsHistory = <<>>,
     !.logs           = <<>>]

\* line 207
resetUpdater(prev) ==
  [prev EXCEPT
     !.trafficLevel = NORMAL_TRAFFIC,
     !.serverCount  = 1,
     !.dbCount      = 1,
     !.hasQueue     = FALSE,
     !.queueSize    = 0,
     !.logs         = <<>>]

\* ---- services/ai.ts ----

\* what ai.models.generateContent (lines 33-40) may do: reject, or resolve
\* with a response whose text is empty (or missing) or is a report
ApiResults ==
  { [rejected |-> TRUE,  text |-> ""],
    [rejected |-> FALSE, text |-> ""],
    [rejected |-> FALSE, text |-> "Servers are saturated; add capacity."] }

\* how a promise settled, and with what
Fulfilled(value) == [settled |-> "fulfilled", value |-> value]
Rejected(value) == [settled |-> "rejected", value |-> value]

\* mutant of getSystemAnalysis: the failure of the external call not caught
getSystemAnalysisNoCatch(client, response) ==
  IF ~client THEN Fulfilled("Gemini API Key not configured.")
  ELSE IF response.rejected THEN Rejected("generateContent failed")
  ELSE IF response.text = "" THEN Fulfilled("No analysis available.")
  ELSE Fulfilled(response.text)

\* lines 14-46: the promise getSystemAnalysis returns, given whether the client
\* exists and what the external call did.  (The state snapshot it is passed
\* only fills the prompt, lines 17-30; every field the prompt formats is
\* always defined.)
getSystemAnalysis(client, response) ==
  IF ~client THEN Fulfilled("Gemini API Key not configured.")
  ELSE IF response.rejected THEN Fulfilled("System analysis temporarily unavailable.")
  ELSE IF response.text = "" THEN Fulfilled("No analysis available.")
  ELSE Fulfilled(response.text)

\* ---- the component: its state, its event handlers, React's update queue ----

\* lines 14-24
InitialState ==
  [trafficLevel   |-> 100,
   actualTraffic  |-> 100,
   serverCount    |-> 1,
   dbCount        |-> 1,
   hasQueue       |-> FALSE,
   queueSize      |-> 0,
   isAutoScaling  |-> TRUE,
   metricsHistory |-> <<>>,
   logs           |-> <<>>]

\* the fields of a SystemState other than its two histories
Scalars(s) ==
  [trafficLevel  |-> s.trafficLevel,
   actualTraffic |-> s.actualTraffic,
   serverCount   |-> s.serverCount,
   dbCount       |-> s.dbCount,
   hasQueue      |-> s.hasQueue,
   queueSize     |-> s.queueSize,
   isAutoScaling |-> s.isAutoScaling]

\* an updater waiting in React's queue
Update(kind, arg) == [kind |-> kind, arg |-> arg]

\* what "last" records of an applied updater (and, of a report of the
\* advisor, what the external call did)
Applied(kind, prev, r, now) ==
  [kind |-> kind, prev |-> Scalars(prev), nLogs |-> Len(prev.logs),
   nMetrics |-> Len(prev.metricsHistory), r |-> r, now |-> now,
   response |-> [rejected |-> FALSE, text |-> ""]]

\* values of Math.random() * 10 the model draws
NoiseSamples == {0, 9}

\* every tenth of [0, 1), the range of Math.random()
AllSamples == 0..9

\* slider positions for the runs that draw every sample
NoiseValues == {0, 50, SLIDER_MAX}

\* slider positions that make the servers scale out and back in
FlapValues == {50, SLIDER_MAX}

\* slider positions whose samples stay below 8 * 150 = 1200
SteadyValues == {600, 1050}

\* Math.random() = 0.5: no noise
QuietSamples == {5}

\* positions of the range input (min 0, max 2000, step 50) the slider is moved to
SliderValues == {0, SLIDER_MAX}
SoakValues == {0, 300, SLIDER_MAX}
LongValues == {SLIDER_MAX}
TrafficValues == {0, 300, SLIDER_MAX}

\* the deltas of the -50, +50 and "Spike +500" buttons (lines 222, 232, 235)
TrafficDeltas == {0 - TRAFFIC_STEP, TRAFFIC_STEP, SPIKE}

\* the component mounted: every hook at its initial value, the interval armed
Mounted ==
  /\ state = InitialState
  /\ queue = <<>>
  /\ isPlaying = TRUE
  /\ rendered = [isAutoScaling |-> TRUE, isPlaying |-> TRUE, isAiLoading |-> FALSE]
  /\ rendering = FALSE
  /\ interval = TRUE
  /\ clock = 0
  /\ ops = 0
  /\ last = Applied("init", InitialState, 0, 0)
  /\ isAiLoading = FALSE
  /\ aiAnalysis = ""
  /\ inFlight = 0

\* the page loaded without an API key: services/ai.ts leaves ai null (line 4)
Init == Mounted /\ ai = FALSE

\* the page loaded with or without an API key (lines 6-12)
InitAdvisor == Mounted /\ ai \in BOOLEAN

\* an event is handled between renders (JavaScript runs one task at a time),
\* while at most maxPending updaters wait for the next render
Arrives(maxPending) == ~rendering /\ Len(queue) <= maxPending

\* an operator action is within the run's budget
Operates(maxOps, maxPending) == ops < maxOps /\ Arrives(maxPending)

\* lines 47-48, 142: the interval fires and hands the tick updater to setState
IntervalFire ==
  /\ interval
  /\ clock' = clock + 1
  /\ queue' = Append(queue, Update("tick", 0))
  /\ UNCHANGED <<advisor, state, isPlaying, rendered, rendering, interval, ops, last>>

\* lines 48-141: React applies the tick updater; its addLog calls (lines 96-117)
\* hand their updaters to setState while it runs
ApplyTick(r) ==
  /\ queue # <<>>
  /\ Head(queue).kind = "tick"
  /\ state' = tickUpdater(state, r, clock)
  /\ queue' = Tail(queue) \o
                [i \in 1..Len(tickLogs(state, r, clock)) |->
                   Update("log", tickLogs(state, r, clock)[i])]
  /\ last' = Applied("tick", state, r, clock)
  /\ rendering' = TRUE
  /\ UNCHANGED <<advisor, isPlaying, rendered, interval, clock, ops>>

\* lines 37-40: React applies an updater of addLog
ApplyLog ==
  /\ queue # <<>>
  /\ Head(queue).kind = "log"
  /\ state' = logUpdater(state, Head(queue).arg)
  /\ queue' = Tail(queue)
  /\ last' = Applied("log", state, 0, clock)
  /\ rendering' = TRUE
  /\ UNCHANGED <<advisor, isPlaying, rendered, interval, clock, ops>>

\* line 158
ApplyTraffic ==
  /\ queue # <<>>
  /\ Head(queue).kind = "traffic"
  /\ state' = trafficUpdater(state, Head(queue).arg)
  /\ queue' = Tail(queue)
  /\ last' = Applied("traffic", state, 0, clock)
  /\ rendering' = TRUE
  /\ UNCHANGED <<advisor, isPlaying, rendered, interval, clock, ops>>

\* lines 229, 236
ApplySetTraffic ==
  /\ queue # <<>>
  /\ Head(queue).kind = "setTraffic"
  /\ state' = setTrafficUpdater(state, Head(queue).arg)
  /\ queue' = Tail(queue)
  /\ last' = Applied("setTraffic", state, 0, clock)
  /\ rendering' = TRUE
  /\ UNCHANGED <<advisor, isPlaying, rendered, interval, clock, ops>>

\* line 162
ApplyToggle ==
  /\ queue # <<>>
  /\ Head(queue).kind = "toggle"
  /\ state' = toggleUpdater(state)
  /\ queue' = Tail(queue)
  /\ last' = Applied("toggle", state, 0, clock)
  /\ rendering' = TRUE
  /\ UNCHANGED <<advisor, isPlaying, rendered, interval, clock, ops>>

\* line 207
ApplyReset ==
  /\ queue # <<>>
  /\ Head(queue).kind = "reset"
  /\ state' = resetUpdater(state)
  /\ queue' = Tail(queue)
  /\ last' = Applied("reset", state, 0, clock)
  /\ rendering' = TRUE
  /\ UNCHANGED <<advisor, isPlaying, rendered, interval, clock, ops>>

\* lines 157-159, from the buttons of lines 222, 232, 235
updateTraffic(delta) ==
  /\ queue' = Append(queue, Update("traffic", delta))
  /\ ops' = ops + 1
  /\ UNCHANGED <<advisor, state, isPlaying, rendered, rendering, interval, clock, last>>

\* line 229: the slider's onChange
SliderChange(value) ==
  /\ queue' = Append(queue, Update("setTraffic", value))
  /\ ops' = ops + 1
  /\ UNCHANGED <<advisor, state, isPlaying, rendered, rendering, interval, clock, last>>

\* line 236: the Normalize button
Normalize ==
  /\ queue' = Append(queue, Update("setTraffic", NORMAL_TRAFFIC))
  /\ ops' = ops + 1
  /\ UNCHANGED <<advisor, state, isPlaying, rendered, rendering, interval, clock, last>>

\* line 163: the message toggleAutoScale passes to addLog, from the
\* state.isAutoScaling its closure holds
toggleMessage(closureIsAutoScaling) ==
  IF closureIsAutoScaling THEN "Auto-scaling Disabled" ELSE "Auto-scaling Enabled"

\* lines 161-164
toggleAutoScale ==
  /\ queue' = queue \o
       << Update("toggle", 0),
          Update("log", LogEntry(toggleMessage(rendered.isAutoScaling), 0, "WARNING", clock)) >>
  /\ ops' = ops + 1
  /\ UNCHANGED <<advisor, state, isPlaying, rendered, rendering, interval, clock, last>>

\* line 207: the Reset button
Reset ==
  /\ queue' = Append(queue, Update("reset", 0))
  /\ ops' = ops + 1
  /\ UNCHANGED <<advisor, state, isPlaying, rendered, rendering, interval, clock, last>>

\* line 201: the Pause/Resume button, setIsPlaying(!isPlaying)
TogglePlay ==
  /\ isPlaying' = ~rendered.isPlaying
  /\ ops' = ops + 1
  /\ UNCHANGED <<advisor, state, queue, rendered, rendering, interval, clock, last>>

\* lines 152-154: what handleAiAnalyze does once the promise of
\* getSystemAnalysis has settled (nothing, if it was rejected: the handler has
\* no catch)
AfterAwait(report) ==
  IF report.settled = "fulfilled"
    THEN aiAnalysis' = report.value /\ isAiLoading' = FALSE
    ELSE UNCHANGED <<aiAnalysis, isAiLoading>>

\* lines 148-151: a click on "Ask AI Advisor".  Without a client the promise
\* is fulfilled at once and the rest of the handler (lines 152-154) runs as a
\* microtask, before any other event; with a client the call of
\* generateContent is in flight when the handler suspends.
handleAiAnalyze ==
  /\ ops' = ops + 1
  /\ IF rendered.isAiLoading
       THEN UNCHANGED <<isAiLoading, aiAnalysis, inFlight>>
     ELSE IF ai
       THEN /\ isAiLoading' = TRUE
            /\ aiAnalysis' = "Analyzing system telemetry..."
            /\ inFlight' = inFlight + 1
     ELSE /\ AfterAwait(getSystemAnalysis(ai, [rejected |-> FALSE, text |-> ""]))
          /\ inFlight' = inFlight
  /\ UNCHANGED <<ai, state, queue, isPlaying, rendered, rendering, interval, clock, last>>

\* lines 33-44 and 152-154: a call of generateContent settles, getSystemAnalysis
\* returns and handleAiAnalyze resumes with its report
handleAiAnalyzeResume(response) ==
  /\ inFlight > 0
  /\ ~rendering
  /\ inFlight' = inFlight - 1
  /\ AfterAwait(getSystemAnalysis(ai, response))
  /\ last' = [Applied("report", state, 0, clock) EXCEPT !.response = response]
  /\ UNCHANGED <<ai, state, queue, isPlaying, rendered, rendering, interval, clock, ops>>

\* mutant of Render: the effect's cleanup (line 144) never clears the interval
RenderKeepsInterval ==
  /\ queue = <<>>
  /\ rendered' = [isAutoScaling |-> state.isAutoScaling, isPlaying |-> isPlaying,
                   isAiLoading |-> isAiLoading]
  /\ rendering' = FALSE
  /\ interval' = TRUE
  /\ UNCHANGED <<advisor, state, queue, isPlaying, clock, ops, last>>

\* React has applied every waiting updater and commits the render: the
\* handlers' closures now hold the new values, and the tick effect (lines
\* 44-145) has cleared or armed the interval as isPlaying says
Render ==
  /\ queue = <<>>
  /\ rendered' = [isAutoScaling |-> state.isAutoScaling, isPlaying |-> isPlaying,
                   isAiLoading |-> isAiLoading]
  /\ rendering' = FALSE
  /\ interval' = isPlaying
  /\ UNCHANGED <<advisor, state, queue, isPlaying, clock, ops, last>>

\* Every handler, called as the page allows, within a short run.
Next ==
  \/ clock < MaxTime /\ Arrives(MaxPending) /\ IntervalFire
  \/ \E r \in NoiseSamples : ApplyTick(r)
  \/ ApplyLog
  \/ ApplyTraffic
  \/ ApplySetTraffic
  \/ ApplyToggle
  \/ ApplyReset
  \/ Operates(MaxOps, MaxPending) /\ \E delta \in TrafficDeltas : updateTraffic(delta)
  \/ Operates(MaxOps, MaxPending) /\ \E value \in SliderValues : SliderChange(value)
  \/ Operates(MaxOps, MaxPending) /\ Normalize
  \/ Operates(MaxOps, MaxPending) /\ toggleAutoScale
  \/ Operates(MaxOps, MaxPending) /\ Reset
  \/ Operates(MaxOps, MaxPending) /\ TogglePlay
  \/ Render

Spec == Init /\ [][Next]_vars

\* A longer run without noise, every event arriving once React has applied
\* what the one before it handed over.
NextSoak ==
  \/ clock < SoakTime /\ Arrives(0) /\ IntervalFire
  \/ \E r \in QuietSamples : ApplyTick(r)
  \/ ApplyLog
  \/ ApplySetTraffic
  \/ ApplyToggle
  \/ ApplyReset
  \/ Operates(SoakOps, 0) /\ \E value \in SoakValues : SliderChange(value)
  \/ Operates(SoakOps, 0) /\ toggleAutoScale
  \/ Operates(SoakOps, 0) /\ Reset
  \/ Operates(SoakOps, 0) /\ TogglePlay
  \/ Render

SpecSoak == Init /\ [][NextSoak]_vars

\* The simulation left running past the length of its histories.
NextLong ==
  \/ clock < LongTime /\ Arrives(0) /\ IntervalFire
  \/ \E r \in QuietSamples : ApplyTick(r)
  \/ ApplyLog
  \/ ApplySetTraffic
  \/ Operates(LongOps, 0) /\ \E value \in LongValues : SliderChange(value)
  \/ Render

SpecLong == Init /\ [][NextLong]_vars

\* The operator moving the slider between ticks.
NextTraffic ==
  \/ clock < TrafficTime /\ Arrives(0) /\ IntervalFire
  \/ \E r \in QuietSamples : ApplyTick(r)
  \/ ApplyLog
  \/ ApplySetTraffic
  \/ Operates(TrafficOps, 0) /\ \E value \in TrafficValues : SliderChange(value)
  \/ Render

SpecTraffic == Init /\ [][NextTraffic]_vars

\* The operator resetting a system that traffic has scaled out, with up to one
\* updater still waiting when the next click arrives.
NextReset ==
  \/ clock < ResetTime /\ Arrives(0) /\ IntervalFire
  \/ \E r \in QuietSamples : ApplyTick(r)
  \/ ApplyLog
  \/ ApplySetTraffic
  \/ ApplyReset
  \/ Operates(ResetOps, 0) /\ \E value \in LongValues : SliderChange(value)
  \/ Operates(ResetOps, 1) /\ Reset
  \/ Render

SpecReset == Init /\ [][NextReset]_vars

\* The operator pausing and resuming the simulation, and moving the slider to
\* its far end once at any point of the run.
NextPause ==
  \/ clock < PauseTime /\ Arrives(0) /\ IntervalFire
  \/ \E r \in QuietSamples : ApplyTick(r)
  \/ ApplyLog
  \/ ApplySetTraffic
  \/ \E value \in LongValues :
       Operates(PauseOps, 0) /\ state.trafficLevel # value /\ SliderChange(value)
  \/ Operates(PauseOps, 0) /\ TogglePlay
  \/ Render

SpecPause == Init /\ [][NextPause]_vars

\* The operator asking the advisor while the simulation runs, a click
\* arriving with at most one updater waiting.  The external call settles in
\* the end, and React applies what it was handed and commits.
NextAdvisor ==
  \/ clock < AdvisorTime /\ Arrives(0) /\ IntervalFire
  \/ \E r \in NoiseSamples : ApplyTick(r)
  \/ Operates(AdvisorOps, 1) /\ handleAiAnalyze
  \/ \E response \in ApiResults : handleAiAnalyzeResume(response)
  \/ Render

SpecAdvisor ==
  /\ InitAdvisor
  /\ [][NextAdvisor]_vars
  /\ WF_vars(\E r \in NoiseSamples : ApplyTick(r))
  /\ WF_vars(Render)
  /\ WF_vars(\E response \in ApiResults : handleAiAnalyzeResume(response))

\* A short run in which each tick may draw any tenth as its random number.
NextNoise ==
  \/ clock < NoiseTime /\ Arrives(0) /\ IntervalFire
  \/ \E r \in AllSamples : ApplyTick(r)
  \/ ApplyLog
  \/ ApplySetTraffic
  \/ Operates(NoiseOps, 0) /\ \E value \in NoiseValues : SliderChange(value)
  \/ Render

SpecNoise == Init /\ [][NextNoise]_vars

\* The simulation playing with auto-scaling on and the slider left alone once
\* the first tick has fired.  The interval keeps firing (till the end of the
\* run) and React applies what it is handed and commits.
NextSteady ==
  \/ clock < SteadyTime /\ Arrives(0) /\ IntervalFire
  \/ \E r \in NoiseSamples : ApplyTick(r)
  \/ ApplyLog
  \/ ApplySetTraffic
  \/ clock = 0 /\ Operates(SteadyOps, 0) /\ \E value \in SteadyValues : SliderChange(value)
  \/ Render

SpecSteady ==
  /\ Init
  /\ [][NextSteady]_vars
  /\ WF_vars(clock < SteadyTime /\ Arrives(0) /\ IntervalFire)
  /\ WF_vars(\E r \in NoiseSamples : ApplyTick(r))
  /\ WF_vars(ApplyLog)
  /\ WF_vars(ApplySetTraffic)
  /\ WF_vars(Render)

\* Auto-scaling on, the noise at either end of its band, the operator taking
\* the traffic up and down between ticks.
NextFlap ==
  \/ clock < FlapTime /\ Arrives(0) /\ IntervalFire
  \/ \E r \in NoiseSamples : ApplyTick(r)
  \/ ApplyLog
  \/ ApplySetTraffic
  \/ Operates(FlapOps, 0) /\ \E value \in FlapValues : SliderChange(value)
  \/ Render

SpecFlap == Init /\ [][NextFlap]_vars

\* ---- the claims ----

\* the updater applied last was a tick
LastWasTick == last.kind = "tick"

\* C1: in every reachable state serverCount is in [1, 8] and dbCount is in
\* [1, 4], whatever ticks and operator actions led to it.
C1_CountsInRange ==
  /\ state.serverCount \in 1..8
  /\ state.dbCount \in 1..4

\* C1 witness: a tick ran with both counts at their maximum while both
\* scale-up conditions held (servers above 80% load, more than 200 queued).
C1_TickAtMaximum ==
  /\ LastWasTick
  /\ last.prev.isAutoScaling
  /\ last.prev.serverCount = 8
  /\ last.prev.dbCount = 4
  /\ serverLoad(last.prev, last.r) * 10 > maxServerCapacity(last.prev) * 8
  /\ last.prev.hasQueue
  /\ last.prev.queueSize > 200
  /\ state.serverCount = 8

\* C2: in every reachable state, the one a queue-removing tick returns
\* included, hasQueue = false implies queueSize = 0.
C2_NoQueueNoBacklog == ~state.hasQueue => state.queueSize = 0

\* C3: in every reachable state metricsHistory and logs hold at most 50
\* entries each.
C3_HistoriesBounded ==
  /\ Len(state.metricsHistory) <= 50
  /\ Len(state.logs) <= 50

\* C3 witness: an event was added to a log already holding 50, after ticks
\* had pushed the first samples out of a full metricsHistory.
C3_BothFull ==
  /\ last.kind = "log"
  /\ last.nLogs = 50
  /\ Len(state.logs) = 50
  /\ Len(state.metricsHistory) = 50
  /\ state.metricsHistory[1].timestamp > 1

\* this step is React applying the updater of the given kind at the head of
\* its queue (no other step leaves clock and ops alone and changes the queue)
Applies(kind) ==
  /\ queue # <<>>
  /\ Head(queue).kind = kind
  /\ queue' # queue
  /\ clock' = clock
  /\ ops' = ops

\* the events whose addLog updater the step added to the queue
Logged == [i \in 1..(Len(queue') - Len(queue) + 1) |-> queue'[Len(queue) - 1 + i].arg]

\* how many of the events ev have this message and this severity
Count(ev, message, type) ==
  Cardinality({i \in 1..Len(ev) : ev[i].message = message /\ ev[i].type = type})

\* how many of the events ev have this severity
CountType(ev, type) == Cardinality({i \in 1..Len(ev) : ev[i].type = type})

\* the sample the tick of this step recorded
Sample == state'.metricsHistory[Len(state'.metricsHistory)]

\* C4: with isAutoScaling false a tick leaves serverCount, dbCount and
\* hasQueue as they were and logs no event.
C4_NoScalingWhenOff ==
  [][Applies("tick") /\ ~state.isAutoScaling =>
       /\ state'.serverCount = state.serverCount
       /\ state'.dbCount = state.dbCount
       /\ state'.hasQueue = state.hasQueue
       /\ state'.logs = state.logs
       /\ Logged = <<>>]_vars

\* C4 witness: a tick ran with auto-scaling off while the servers were
\* overloaded and more than 200 items were queued.
C4_OverloadedWhileOff ==
  /\ LastWasTick
  /\ ~last.prev.isAutoScaling
  /\ overloadedTraffic(last.prev, last.r) > 0
  /\ last.prev.serverCount < 8
  /\ last.prev.hasQueue
  /\ last.prev.queueSize > 200
  /\ last.prev.dbCount < 4

\* C5: with isAutoScaling true a tick adds a server exactly when serverLoad is
\* above 80% of prev.serverCount * 150 and prev.serverCount < 8, removes one
\* exactly when that does not hold, serverLoad is below 30% and
\* prev.serverCount > 1, and otherwise leaves serverCount as it was.
C5_ServerRule ==
  [][Applies("tick") /\ state.isAutoScaling =>
       LET n    == state.serverCount
           load == Sample.serverLoad
           up   == load * 10 > 8 * (n * 150) /\ n < 8
           down == ~up /\ load * 10 < 3 * (n * 150) /\ n > 1
       IN  state'.serverCount = IF up THEN n + 1 ELSE IF down THEN n - 1 ELSE n]_vars

\* C5 witness: one server, traffic above 120, and the tick made it two.
C5_SecondServerAdded ==
  /\ LastWasTick
  /\ last.prev.isAutoScaling
  /\ last.prev.serverCount = 1
  /\ state.actualTraffic > 120
  /\ state.serverCount = 2

\* C6: with isAutoScaling true, a tick with dbUtilization > 0.8 and no queue
\* adds the queue and logs one WARNING event; a tick with the queue present,
\* the previous queueSize 0 and dbUtilization < 0.2 removes it and logs one
\* INFO event reporting the removal; any other tick leaves hasQueue as it was.
C6_QueueRule ==
  [][Applies("tick") /\ state.isAutoScaling =>
       LET capacity == state.dbCount * 400
           add      == Sample.dbLoad * 10 > 8 * capacity /\ ~state.hasQueue
           remove   == /\ state.hasQueue
                       /\ state.queueSize = 0
                       /\ Sample.dbLoad * 10 < 2 * capacity
       IN  /\ add =>
                /\ state'.hasQueue
                /\ CountType(Logged, "WARNING") = 1
           /\ remove =>
                /\ ~state'.hasQueue
                /\ Count(Logged, "Architecture Change: Removed Message Queue", "INFO") = 1
                /\ CountType(Logged, "WARNING") = 0
           /\ ~add /\ ~remove => state'.hasQueue = state.hasQueue]_vars

\* C6 witness: a tick removed a queue that an earlier tick had added.
C6_QueueRemoved ==
  /\ LastWasTick
  /\ last.prev.isAutoScaling
  /\ last.prev.hasQueue
  /\ ~state.hasQueue

\* C7: with isAutoScaling true, a tick whose input has the queue, more than 200
\* items queued and fewer than 4 databases adds one database and logs one
\* SUCCESS event mentioning "DB Read Replica".
C7_DbReplicaRule ==
  [][/\ Applies("tick")
     /\ state.isAutoScaling
     /\ state.hasQueue
     /\ state.queueSize > 200
     /\ state.dbCount < 4
     =>
     /\ state'.dbCount = state.dbCount + 1
     /\ Count(Logged, "Auto-scaled: Added DB Read Replica", "SUCCESS") = 1
     /\ \A i \in 1..Len(Logged) :
          Logged[i].message = "Auto-scaled: Added DB Read Replica"
            => Logged[i].total = state.dbCount + 1]_vars

\* C7 witness: one database, more than 200 items queued, and the tick made
\* it two.
C7_FirstReplicaAdded ==
  /\ LastWasTick
  /\ last.prev.isAutoScaling
  /\ last.prev.hasQueue
  /\ last.prev.queueSize > 200
  /\ last.prev.dbCount = 1
  /\ state.dbCount = 2

\* C8: a tick logs exactly one event for each rule that fired in it (each
\* count or flag it changed) and none when no rule fired, with the severity of
\* the action: add server SUCCESS, remove server INFO, add queue WARNING,
\* remove queue INFO, add db replica SUCCESS, remove db replica INFO; and each
\* logged event is put once at the head of logs.
C8_OneEventPerRule ==
  [][/\ Applies("tick") =>
          LET dServers == state'.serverCount - state.serverCount
              dDbs     == state'.dbCount - state.dbCount
              fired    == (IF dServers # 0 THEN 1 ELSE 0)
                          + (IF state'.hasQueue # state.hasQueue THEN 1 ELSE 0)
                          + (IF dDbs # 0 THEN 1 ELSE 0)
          IN  /\ Len(Logged) = fired
              /\ \A i \in 1..Len(Logged) : queue'[Len(queue) - 1 + i].kind = "log"
              /\ dServers = 1 => Count(Logged, "Auto-scaled: Added App Server", "SUCCESS") = 1
              /\ dServers = -1 => Count(Logged, "Scaled down: Removed App Server", "INFO") = 1
              /\ (state'.hasQueue /\ ~state.hasQueue) =>
                   Count(Logged, "Architecture Change: Added Message Queue to buffer DB spikes", "WARNING") = 1
              /\ (~state'.hasQueue /\ state.hasQueue) =>
                   Count(Logged, "Architecture Change: Removed Message Queue", "INFO") = 1
              /\ dDbs = 1 => Count(Logged, "Auto-scaled: Added DB Read Replica", "SUCCESS") = 1
              /\ dDbs = -1 => Count(Logged, "Scaled down: Removed DB Replica", "INFO") = 1
     /\ Applies("log") =>
          /\ state'.logs[1] = Head(queue).arg
          /\ Len(state'.logs) = Min(Len(state.logs) + 1, 50)
          /\ \A i \in 2..Len(state'.logs) : state'.logs[i] = state.logs[i - 1]]_vars

\* C8 witness: a tick removed a server and a database at once, and its two
\* events wait to be put in logs.
C8_TwoRulesFired ==
  /\ LastWasTick
  /\ state.serverCount = last.prev.serverCount - 1
  /\ state.dbCount = last.prev.dbCount - 1
  /\ rendering
  /\ Len(queue) = 2

\* C9: every toggleAutoScaling flips isAutoScaling and logs one WARNING event
\* whose message tells the transition that happened: "Auto-scaling Disabled"
\* iff the flag went from true to false.  (The event's updater is applied
\* right after the toggle's, so when it lands the flag is the toggle's result.)
C9_MessageTellsTransition ==
  (/\ last.kind = "log"
   /\ state.logs # <<>>
   /\ state.logs[1].message \in {"Auto-scaling Disabled", "Auto-scaling Enabled"})
  => (state.logs[1].message = "Auto-scaling Disabled" <=> ~state.isAutoScaling)

\* C10: reset sets trafficLevel 100, serverCount 1, dbCount 1, hasQueue false,
\* queueSize 0 and logs empty, and leaves isAutoScaling, metricsHistory and
\* actualTraffic as they were.
C10_ResetEffect ==
  [][Applies("reset") =>
       /\ state'.trafficLevel = 100
       /\ state'.serverCount = 1
       /\ state'.dbCount = 1
       /\ state'.hasQueue = FALSE
       /\ state'.queueSize = 0
       /\ state'.logs = <<>>
       /\ state'.isAutoScaling = state.isAutoScaling
       /\ state'.metricsHistory = state.metricsHistory
       /\ state'.actualTraffic = state.actualTraffic]_vars

\* C10 witness: reset was applied to a scaled-out system with work queued,
\* events logged and samples recorded.
C10_ResetOfScaledSystem ==
  /\ last.kind = "reset"
  /\ last.prev.serverCount > 1
  /\ last.prev.dbCount > 1
  /\ last.prev.hasQueue
  /\ last.prev.queueSize > 0
  /\ last.prev.trafficLevel # 100
  /\ last.prev.actualTraffic # 100
  /\ last.nLogs > 0
  /\ last.nMetrics > 0
  /\ state.serverCount = 1
  /\ Len(state.metricsHistory) = last.nMetrics

\* C11: reset is idempotent: a reset applied right after a reset, with no tick
\* in between, leaves the state the first one produced.
C11_ResetIdempotent ==
  [][Applies("reset") /\ last.kind = "reset" => state' = state]_vars

\* C11 witness: a second reset was applied to what the first had made of a
\* scaled-out system (the last tick's traffic and sample are still those of
\* the three-server system, so no tick ran in between).
C11_SecondReset ==
  /\ last.kind = "reset"
  /\ last.prev.serverCount = 1
  /\ last.prev.trafficLevel = 100
  /\ last.prev.actualTraffic = 2000
  /\ last.nLogs = 0
  /\ state.metricsHistory # <<>>
  /\ state.metricsHistory[Len(state.metricsHistory)].serverCount = 3
  /\ state.serverCount = 1

\* C12: every operator traffic action (+50, -50, Spike +500, slider,
\* Normalize) changes only trafficLevel and never makes it negative, so
\* actualTraffic stays as it was until the next tick, and that tick's sample is
\* drawn from the trafficLevel the action left (within its 10% band).
C12_TrafficActionFrame ==
  [][/\ state'.trafficLevel >= 0
     /\ state'.actualTraffic # state.actualTraffic => Applies("tick")
     /\ Applies("traffic") =>
          /\ state'.trafficLevel = Max(0, state.trafficLevel + Head(queue).arg)
          /\ state' = [state EXCEPT !.trafficLevel = state'.trafficLevel]
          /\ Logged = <<>>
     /\ Applies("setTraffic") =>
          /\ state'.trafficLevel = Head(queue).arg
          /\ state' = [state EXCEPT !.trafficLevel = state'.trafficLevel]
          /\ Logged = <<>>
     /\ Applies("tick") =>
          /\ state'.trafficLevel = state.trafficLevel
          /\ state'.actualTraffic >= 0
          /\ (state'.actualTraffic - state.trafficLevel) * 10 <= state.trafficLevel
          /\ (state.trafficLevel - state'.actualTraffic) * 10 <= state.trafficLevel]_vars

\* C12 witness: after "Spike +500" the level was 600 while actualTraffic was
\* still 100, and the next tick sampled 540 from the new level.
C12_TickAfterSpike ==
  /\ LastWasTick
  /\ last.prev.trafficLevel = 600
  /\ last.prev.actualTraffic = 100
  /\ state.actualTraffic = 540

\* C13: while the simulation is paused (the committed render has isPlaying
\* false) the interval is cleared and no tick fires or is applied, so
\* actualTraffic, serverCount, dbCount, hasQueue, queueSize and metricsHistory
\* change only through operator actions; the render that commits isPlaying
\* true arms the interval again.
C13_PausedNoTick ==
  [][/\ interval' = rendered'.isPlaying
     /\ clock' # clock => rendered.isPlaying
     /\ ~rendered.isPlaying =>
          /\ ~Applies("tick")
          /\ state'.metricsHistory = state.metricsHistory
          /\ state'.actualTraffic = state.actualTraffic
          /\ (\/ state'.serverCount # state.serverCount
              \/ state'.dbCount # state.dbCount
              \/ state'.hasQueue # state.hasQueue
              \/ state'.queueSize # state.queueSize)
             => Applies("reset")]_vars

\* C13 witness: the operator paused, resumed and moved the slider (three
\* actions, the slider moved once), and the interval has fired again since.
C13_TickAfterResume ==
  /\ ops = 3
  /\ state.trafficLevel = 2000
  /\ isPlaying
  /\ rendered.isPlaying
  /\ ~rendering
  /\ queue # <<>>
  /\ Head(queue).kind = "tick"

\* C14: at most one advisory request is in flight at any time, however
\* clicks on "Ask AI Advisor", re-renders and completions interleave.
C14_OneRequestInFlight == inFlight <= 1

\* C15: the advisory request fails open.  getSystemAnalysis always resolves to
\* a string: "Gemini API Key not configured." without a client, "System
\* analysis temporarily unavailable." when the external call fails.  So every
\* request that resumes sets isAiLoading to false, isAiLoading never stays true
\* for ever, and neither the click nor the report changes the simulation's
\* state or React's queue of updaters.
C15_AdvisorFailsOpen ==
  /\ [][/\ inFlight' < inFlight =>
            /\ isAiLoading' = FALSE
            /\ aiAnalysis' =
                 (IF last'.response.rejected THEN "System analysis temporarily unavailable."
                  ELSE IF last'.response.text = "" THEN "No analysis available."
                  ELSE last'.response.text)
            /\ state' = state
            /\ queue' = queue
        /\ (ops' # ops /\ ~ai /\ ~rendered.isAiLoading) =>
            /\ isAiLoading' = FALSE
            /\ aiAnalysis' = "Gemini API Key not configured."
            /\ inFlight' = inFlight
        /\ ops' # ops => state' = state /\ queue' = queue]_vars
  /\ (isAiLoading ~> ~isAiLoading)

\* C15 witness: the external call failed, and the handler resumed with the
\* fallback string and cleared isAiLoading.
C15_FailureReported ==
  /\ last.kind = "report"
  /\ last.response.rejected
  /\ ai
  /\ aiAnalysis = "System analysis temporarily unavailable."
  /\ ~isAiLoading
  /\ inFlight = 0

\* C16: in every tick whose traffic sample exceeds serverCount * 150 (the
\* capacity the tick worked with, or the one it left), the latency of the
\* tick's metric sample is at least 5020 ms, whatever the counts and the queue.
C16_OverloadPenalty ==
  [][Applies("tick") /\ (\/ Sample.traffic > state.serverCount * 150
                         \/ Sample.traffic > state'.serverCount * 150)
       => Sample.latency >= 5020 * 1000]_vars

\* C16 witness: one server, a sample of 2000 requests per second, and the
\* tick recorded a latency of 5020 ms or more.
C16_OverloadedSingleServer ==
  /\ LastWasTick
  /\ last.prev.serverCount = 1
  /\ state.actualTraffic = 2000
  /\ state.metricsHistory[Len(state.metricsHistory)].traffic = 2000
  /\ state.metricsHistory[Len(state.metricsHistory)].latency >= 5020 * 1000

\* C17: the traffic sample a tick produces is never negative and is within
\* 10% of trafficLevel of the current trafficLevel; for trafficLevel = 100 it
\* lies in [0, 120].
C17_NoiseBand ==
  [][Applies("tick") =>
       LET level  == state.trafficLevel
           sample == state'.actualTraffic
       IN  /\ sample >= 0
           /\ (sample - level) * 10 <= level
           /\ (level - sample) * 10 <= level
           /\ Sample.traffic = sample
           /\ level = 100 => sample \in 0..120]_vars

\* C17 witness: at trafficLevel 100 the tick drew Math.random() = 0 and
\* sampled 90, the lowest the band allows.
C17_LowestSample ==
  /\ LastWasTick
  /\ last.prev.trafficLevel = 100
  /\ last.r = 0
  /\ state.actualTraffic = 90

\* C18: scale-up has priority over scale-down in each dimension: in a tick with
\* isAutoScaling true, if serverLoad > 0.8 * capacity the server count is not
\* decreased, and if hasQueue and queueSize > 200 the database count is not
\* decreased, also when the count is already at its maximum.
C18_ScaleUpPriority ==
  [][Applies("tick") /\ state.isAutoScaling =>
       /\ Sample.serverLoad * 10 > 8 * (state.serverCount * 150)
            => state'.serverCount >= state.serverCount
       /\ state.hasQueue /\ state.queueSize > 200
            => state'.dbCount >= state.dbCount]_vars

\* C19: no tick both removes the queue (hasQueue from true to false) and
\* decreases dbCount.
C19_NoDoubleScaleDown ==
  [][Applies("tick") =>
       ~(state.hasQueue /\ ~state'.hasQueue /\ state'.dbCount < state.dbCount)]_vars

\* C20: a tick changes serverCount by at most 1 and dbCount by at most 1, and
\* each rule decides on the previous state's serverCount, dbCount, hasQueue and
\* queueSize (and on the loads computed from them), never on what another rule
\* or the queue logic has changed in the same tick.
C20_RulesReadPreviousState ==
  [][Applies("tick") =>
       LET n        == state.serverCount
           d        == state.dbCount
           has      == state.hasQueue
           size     == state.queueSize
           load     == Sample.serverLoad
           through  == Sample.dbLoad
           capacity == d * 400
       IN  /\ state'.serverCount - n \in {-1, 0, 1}
           /\ state'.dbCount - d \in {-1, 0, 1}
           /\ load = Min(Sample.traffic, n * 150)
           /\ through = IF has THEN Min(size + load, 300) ELSE load
           /\ state.isAutoScaling =>
                /\ state'.serverCount =
                     (IF load * 10 > 8 * (n * 150) /\ n < 8 THEN n + 1
                      ELSE IF load * 10 < 3 * (n * 150) /\ n > 1 THEN n - 1
                      ELSE n)
                /\ state'.hasQueue =
                     (IF through * 10 > 8 * capacity /\ ~has THEN TRUE
                      ELSE IF through * 10 < 2 * capacity /\ has /\ size = 0 THEN FALSE
                      ELSE has)
                /\ state'.dbCount =
                     (IF has /\ size > 200 /\ d < 4 THEN d + 1
                      ELSE IF through * 10 < 3 * capacity /\ d > 1 THEN d - 1
                      ELSE d)]_vars

\* C20 witness: the tick's own queue logic took the backlog from at most 200
\* to more than 200, and the database rule, reading the previous queueSize,
\* added no replica although there was room for one.
C20_BacklogGrewUnseen ==
  /\ LastWasTick
  /\ last.prev.isAutoScaling
  /\ last.prev.hasQueue
  /\ last.prev.queueSize <= 200
  /\ state.queueSize > 200
  /\ last.prev.dbCount < 4
  /\ state.dbCount <= last.prev.dbCount

\* the events the auto-scaling rules of a tick log (the others are the two
\* messages of toggleAutoScale)
TickEvent(entry) ==
  entry.message \notin {"Auto-scaling Disabled", "Auto-scaling Enabled"}

\* C21: a tick is atomic with respect to its events: no operator action (reset,
\* toggle, traffic change) is applied between the tick's update of the counts
\* and the appending of that tick's events to logs, so none is applied while
\* an event of an applied tick still waits to be put in logs.
C21_TickEventsAtomic ==
  [][(Applies("reset") \/ Applies("toggle") \/ Applies("traffic") \/ Applies("setTraffic"))
       => \A i \in 1..Len(queue) :
            queue[i].kind = "log" => ~TickEvent(queue[i].arg)]_vars

\* C22: ticks and operator actions are serialized without lost updates: React
\* applies the waiting updaters one at a time in the order they were handed
\* over, each to the state the one before it produced.  A tick keeps the
\* trafficLevel, the isAutoScaling flag and the logs it finds and extends the
\* metricsHistory it finds; a traffic change, a toggle or a reset keeps the
\* tick results it finds (actualTraffic, metricsHistory, and the counts
\* unless it is a reset).
C22_NoLostUpdate ==
  [][/\ state' # state =>
          /\ queue # <<>>
          /\ Applies(Head(queue).kind)
          /\ SubSeq(queue', 1, Len(queue) - 1) = Tail(queue)
          /\ last'.prev = Scalars(state)
     /\ (state' = state /\ queue' # queue /\ queue # <<>> /\ ~Applies(Head(queue).kind)) =>
          SubSeq(queue', 1, Len(queue)) = queue
     /\ Applies("tick") =>
          /\ state'.trafficLevel = state.trafficLevel
          /\ state'.isAutoScaling = state.isAutoScaling
          /\ state'.logs = state.logs
          /\ state'.metricsHistory =
               sliceLast(Append(state.metricsHistory, Sample), 50)
     /\ Applies("traffic") =>
          state' = [state EXCEPT !.trafficLevel = Max(0, state.trafficLevel + Head(queue).arg)]
     /\ Applies("setTraffic") =>
          state' = [state EXCEPT !.trafficLevel = Head(queue).arg]
     /\ Applies("toggle") =>
          state' = [state EXCEPT !.isAutoScaling = ~state.isAutoScaling]
     /\ Applies("reset") =>
          /\ state'.actualTraffic = state.actualTraffic
          /\ state'.metricsHistory = state.metricsHistory
          /\ state'.isAutoScaling = state.isAutoScaling
     /\ Applies("log") =>
          state' = [state EXCEPT !.logs = state'.logs]]_vars

\* C22 witness: the operator switched auto-scaling off, a tick sampled 90, and
\* "Spike +500" was applied after it: the flag, the sample and the new level
\* are all there.
C22_ToggleTickSpike ==
  /\ last.kind = "traffic"
  /\ last.nMetrics = 1
  /\ ~last.prev.isAutoScaling
  /\ last.prev.actualTraffic = 90
  /\ state.trafficLevel = 600
  /\ state.actualTraffic = 90
  /\ ~state.isAutoScaling
  /\ Len(state.metricsHistory) = 1

\* C23: a tick on a state with hasQueue true conserves queued work: previous
\* queueSize + serverLoad = throughputToDb + next queueSize, where throughputToDb
\* = min(previous queueSize + serverLoad, 300) and next queueSize >= 0; on a
\* state with hasQueue false throughputToDb = serverLoad and the next queueSize
\* is 0.  The sample records the same queueSize as the state.
C23_QueueConservation ==
  [][Applies("tick") =>
       LET size    == state.queueSize
           load    == Sample.serverLoad
           through == Sample.dbLoad
           next    == state'.queueSize
       IN  /\ next >= 0
           /\ Sample.queueSize = next
           /\ state.hasQueue =>
                /\ through = Min(size + load, 300)
                /\ size + load = through + next
           /\ ~state.hasQueue =>
                /\ through = load
                /\ next = 0]_vars

\* C23 witness: a queue already holding work took in more than it could hand
\* on: 300 went to the databases and the backlog grew.
C23_BacklogGrows ==
  /\ LastWasTick
  /\ last.prev.hasQueue
  /\ last.prev.queueSize > 0
  /\ state.queueSize > last.prev.queueSize
  /\ state.metricsHistory[Len(state.metricsHistory)].dbLoad = 300

\* the rule an event of a tick comes from: 1 servers, 2 queue, 3 databases
RuleOf(entry) ==
  IF entry.message \in {"Auto-scaled: Added App Server", "Scaled down: Removed App Server"}
    THEN 1
  ELSE IF entry.message \in {"Architecture Change: Added Message Queue to buffer DB spikes",
                             "Architecture Change: Removed Message Queue"}
    THEN 2
  ELSE 3

\* C24: logs is newest-first and metricsHistory chronological.  Every event is
\* put at the head of logs, the events already there move down one place and,
\* when there were 50, the one at the tail is dropped; the events of one tick
\* are handed over in the order servers, queue, databases, so the later rule's
\* event ends nearer the head.  Every tick puts its sample at the end of
\* metricsHistory and, when there were 50, drops the one at the front.
C24_HistoryOrder ==
  [][/\ Applies("log") =>
          /\ state'.logs[1] = Head(queue).arg
          /\ Len(state'.logs) = Min(Len(state.logs) + 1, 50)
          /\ \A i \in 2..Len(state'.logs) : state'.logs[i] = state.logs[i - 1]
     /\ Applies("tick") =>
          /\ \A i, j \in 1..Len(Logged) : i < j => RuleOf(Logged[i]) < RuleOf(Logged[j])
          /\ Len(state'.metricsHistory) = Min(Len(state.metricsHistory) + 1, 50)
          /\ state'.metricsHistory[Len(state'.metricsHistory)].timestamp = clock
          /\ \A i \in 1..(Len(state'.metricsHistory) - 1) :
               state'.metricsHistory[i] =
                 state.metricsHistory[i + Len(state.metricsHistory) + 1
                                        - Len(state'.metricsHistory)]
     /\ \A i \in 1..(Len(state'.logs) - 1) :
          state'.logs[i].timestamp >= state'.logs[i + 1].timestamp
     /\ \A i \in 1..(Len(state'.metricsHistory) - 1) :
          state'.metricsHistory[i].timestamp < state'.metricsHistory[i + 1].timestamp]_vars

\* C24 witness: an event was put at the head of a full log and pushed out the
\* oldest one, while metricsHistory, full as well, had already lost its first
\* samples.
C24_OverflowAtBothEnds ==
  /\ last.kind = "log"
  /\ last.nLogs = 50
  /\ Len(state.logs) = 50
  /\ state.logs[1].timestamp > state.logs[50].timestamp
  /\ Len(state.metricsHistory) = 50
  /\ state.metricsHistory[1].timestamp > 1
  /\ state.metricsHistory[50].timestamp = state.metricsHistory[1].timestamp + 49

\* the latest tick was overloaded: its sample exceeded the capacity of the
\* servers it had, so that they took on less than the traffic
LastTickOverloaded ==
  /\ state.metricsHistory # <<>>
  /\ state.metricsHistory[Len(state.metricsHistory)].traffic
       > state.metricsHistory[Len(state.metricsHistory)].serverLoad

\* C25: with isAutoScaling true, the simulation playing and trafficLevel held
\* at a value whose samples never exceed 1200, every overloaded tick with
\* fewer than 8 servers adds a server, and from some point on no tick is
\* overloaded.
C25_OverloadEnds ==
  /\ [][(/\ Applies("tick")
          /\ state.isAutoScaling
          /\ Sample.traffic > state.serverCount * 150
          /\ state.serverCount < 8)
         => state'.serverCount = state.serverCount + 1]_vars
  /\ <>[](~LastTickOverloaded)

\* C25 witness: at trafficLevel 1050 the first tick was overloaded, and the
\* eighth tick, with all 8 servers, was not.
C25_SettledAtEight ==
  /\ LastWasTick
  /\ ~LastTickOverloaded
  /\ state.trafficLevel = 1050
  /\ last.prev.serverCount = 8
  /\ Len(state.metricsHistory) = 8
  /\ state.metricsHistory[1].traffic > 150
  /\ state.metricsHistory[1].serverCount = 2

\* the tick before the one the interval has just fired for logged this
\* message (each tick is applied before the interval fires again, so its
\* events carry the time stamp clock - 1)
PreviousTickLogged(message) ==
  \E i \in 1..Len(state.logs) :
    /\ state.logs[i].timestamp = clock - 1
    /\ state.logs[i].message = message

\* C26: with isAutoScaling true and trafficLevel unchanged between two
\* consecutive ticks (nothing but the first tick and its events applied since
\* the first tick began), the server count does not flap: after a tick that
\* added a server the next removes none, and after a tick that removed one the
\* next adds none, at either end of the noise band.
C26_NoFlapping ==
  [][(/\ Applies("tick")
      /\ state.isAutoScaling
      /\ last.kind \in {"tick", "log"})
     =>
     /\ PreviousTickLogged("Auto-scaled: Added App Server")
          => state'.serverCount >= state.serverCount
     /\ PreviousTickLogged("Scaled down: Removed App Server")
          => state'.serverCount <= state.serverCount]_vars

\* C26 witness: at trafficLevel 50 a tick removed a server, and the next tick,
\* sampling at the top of the band and still with more than one server, did
\* not add one.
C26_RemovedThenHighSample ==
  /\ LastWasTick
  /\ last.r = 9
  /\ last.prev.isAutoScaling
  /\ last.prev.trafficLevel = 50
  /\ last.prev.actualTraffic < 55
  /\ last.prev.serverCount >= 2
  /\ PreviousTickLogged("Scaled down: Removed App Server")
  /\ state.serverCount <= last.prev.serverCount

=============================================================================
